---- MODULE Spec2Model ----
(***************************************************************************)
(* Model of colmap/matrix.py: conversion of COLMAP pose and calibration    *)
(* records into an intrinsic matrix and per-image extrinsic blocks.        *)
(*                                                                         *)
(* Floating-point values are modelled as exact rationals <<num, den>> in   *)
(* lowest terms with den > 0; every value the model feeds to the code is a *)
(* small dyadic rational, for which double arithmetic is exact.            *)
(* Text fields are modelled as string tokens; float() is the table         *)
(* FloatLiteral, and a token outside its domain makes float() raise.       *)
(***************************************************************************)
EXTENDS Integers, Sequences, FiniteSets, TLC

\* ------------------------------------------------------------------ bounds
\* quaternion components range over k/QDen, k in -QDen..QDen
QDen == 2
\* most calibration lines in cameras.txt
MaxLines == 2
\* most pose records in the pose source
MaxRows == 2
\* most positional arguments on the command line
MaxArgs == 3

\* --------------------------------------------------- exact float arithmetic
Abs(x) == IF x < 0 THEN -x ELSE x

RECURSIVE GCD(_, _)
GCD(a, b) == IF b = 0 THEN a ELSE GCD(b, a % b)

Rat(n, d) ==
    LET g == GCD(Abs(n), d)
    IN  <<n \div g, d \div g>>

RInt(k) == <<k, 1>>
RNeg(a) == <<-a[1], a[2]>>
RAdd(a, b) == Rat(a[1] * b[2] + b[1] * a[2], a[2] * b[2])
RSub(a, b) == RAdd(a, RNeg(b))
RMul(a, b) == Rat(a[1] * b[1], a[2] * b[2])
RSq(a) == RMul(a, a)

\* ------------------------------------------------ quaternion_rotation_matrix
quaternion_rotation_matrix_signslip(qw, qx, qy, qz) ==
    LET two == RInt(2)
        one == RInt(1)
        r00 == RSub(RSub(one, RMul(two, RSq(qy))), RMul(two, RSq(qz)))
        r01 == RAdd(RMul(RMul(two, qx), qy), RMul(RMul(two, qz), qw))
        r02 == RAdd(RMul(RMul(two, qx), qz), RMul(RMul(two, qy), qw))
        r10 == RAdd(RMul(RMul(two, qx), qy), RMul(RMul(two, qz), qw))
        r11 == RSub(RSub(one, RMul(two, RSq(qx))), RMul(two, RSq(qz)))
        r12 == RSub(RMul(RMul(two, qy), qz), RMul(RMul(two, qx), qw))
        r20 == RSub(RMul(RMul(two, qx), qz), RMul(RMul(two, qy), qw))
        r21 == RAdd(RMul(RMul(two, qy), qz), RMul(RMul(two, qx), qw))
        r22 == RSub(RSub(one, RMul(two, RSq(qx))), RMul(two, RSq(qy)))
    IN  << <<r00, r01, r02>>,
           <<r10, r11, r12>>,
           <<r20, r21, r22>> >>

quaternion_rotation_matrix(qw, qx, qy, qz) ==
    LET two == RInt(2)
        one == RInt(1)
        \* first row
        r00 == RSub(RSub(one, RMul(two, RSq(qy))), RMul(two, RSq(qz)))
        r01 == RSub(RMul(RMul(two, qx), qy), RMul(RMul(two, qz), qw))
        r02 == RAdd(RMul(RMul(two, qx), qz), RMul(RMul(two, qy), qw))
        \* second row
        r10 == RAdd(RMul(RMul(two, qx), qy), RMul(RMul(two, qz), qw))
        r11 == RSub(RSub(one, RMul(two, RSq(qx))), RMul(two, RSq(qz)))
        r12 == RSub(RMul(RMul(two, qy), qz), RMul(RMul(two, qx), qw))
        \* third row
        r20 == RSub(RMul(RMul(two, qx), qz), RMul(RMul(two, qy), qw))
        r21 == RAdd(RMul(RMul(two, qy), qz), RMul(RMul(two, qx), qw))
        r22 == RSub(RSub(one, RMul(two, RSq(qx))), RMul(two, RSq(qy)))
    IN  << <<r00, r01, r02>>,
           <<r10, r11, r12>>,
           <<r20, r21, r22>> >>

\* ndarray.transpose() of a 3x3 array
transpose(m) == [i \in 1..3 |-> [j \in 1..3 |-> m[j][i]]]

\* -r_t * T : unary minus on a 3x3 array, then numpy's elementwise product
\* with a shape-(3,) array broadcast along rows: result[i][j] = a[i][j]*T[j]
NegArray(m) == [i \in 1..3 |-> [j \in 1..3 |-> RNeg(m[i][j])]]
BroadcastMul(m, T) == [i \in 1..3 |-> [j \in 1..3 |-> RMul(m[i][j], T[j])]]

\* ------------------------------------------------------------ text fields
\* float(token): the literals that parse, with their values
FloatLiteral ==
    [t \in {"0", "1", "2", "3", "0.5", "-0.5", "240", "320", "540", "800",
            "900", "960", "1400", "1500"} |->
        CASE t = "0" -> RInt(0)
          [] t = "1" -> RInt(1)
          [] t = "2" -> RInt(2)
          [] t = "3" -> RInt(3)
          [] t = "0.5" -> Rat(1, 2)
          [] t = "-0.5" -> Rat(-1, 2)
          [] t = "240" -> RInt(240)
          [] t = "320" -> RInt(320)
          [] t = "540" -> RInt(540)
          [] t = "800" -> RInt(800)
          [] t = "900" -> RInt(900)
          [] t = "960" -> RInt(960)
          [] t = "1400" -> RInt(1400)
          [] t = "1500" -> RInt(1500)]

\* float(token) raises ValueError
FloatRaises(t) == t \notin DOMAIN FloatLiteral

\* str.startswith("#") on the first field of a split line
StartsWithHash(t) == t \in {"#", "#CAMERA_ID,"}

\* ------------------------------------------------- calibration file lines
\* a line of cameras.txt after line.split(" "): a non-empty field sequence
LineComment == <<"#", "Camera", "list">>
LineA == <<"1", "SIMPLE_RADIAL", "640", "480", "800", "800", "320", "240">>
LineB == <<"2", "PINHOLE", "1920", "1080", "1500", "1400", "960", "540">>
LineShort == <<"3", "OPENCV", "1280", "720", "900">>
LineBadFx == <<"4", "RADIAL", "640", "480", "abc", "800", "320", "240">>

CalibLines == {LineComment, LineA, LineB, LineShort, LineBadFx}

\* ---------------------------------------------------------- pose csv rows
\* a row of parsed_data.csv as csv.reader yields it: name, qw..qz, tx..tz
CsvHeader == <<"image_name", "qw", "qx", "qy", "qz", "tx", "ty", "tz">>
RowA == <<"imgA", "1", "0", "0", "0", "0", "0", "0">>
RowB == <<"imgB", "0", "1", "0", "0", "1", "0", "0">>
RowC == <<"imgC", "1", "0", "0", "0", "1", "2", "3">>
RowH == <<"imgH", "0.5", "0.5", "0.5", "-0.5", "1", "2", "3">>
RowBadQy == <<"imgX", "1", "0", "abc", "0", "0", "0", "0">>
RowShort == <<"imgS", "1", "0", "0">>

PoseRows == {RowA, RowB, RowC, RowH, RowBadQy, RowShort}

SeqUpTo(S, n) == UNION {[1..k -> S] : k \in 0..n}

\* file names that can be given on the command line
PoseNames == {"images.txt", "poses_b.txt"}
CalibNames == {"cameras.txt", "calib_b.txt"}

ArgVectors ==
    {a \in SeqUpTo(PoseNames \cup CalibNames, MaxArgs) :
        \A i \in 1..Len(a) : IF i = 1 THEN a[i] \in PoseNames
                                      ELSE a[i] \in CalibNames}

\* ------------------------------------------------------------------ state
VARIABLES
    argv,             \* sys.argv[1:]
    images,           \* pose records held by the file named argv[1]
    cameras,          \* lines of the file "cameras.txt"
    csv,              \* rows of the file "parsed_data.csv"
    csvFrom,          \* name of the file parsed_data.csv was derived from
    pc,               \* position of the run
    exc,              \* uncaught exception that ended the run, or "none"
    exitCode,         \* process exit status, -1 while running
    console,          \* what was printed to the process's own stdout
    redirected,       \* sys.stdout has been replaced by out_matrix.txt
    out,              \* items printed into out_matrix.txt
    handles,          \* file handles currently open
    calibFrom,        \* name of the file get_intrinsic opened
    poseFrom,         \* name of the file get_extrinsic opened
    lines,            \* get_intrinsic: lines the for loop has yet to visit
    loc,              \* get_intrinsic: local variables set by the loop
    reader,           \* get_extrinsic: rows csv_reader has yet to yield
    q,                \* quaternion given to quaternion_rotation_matrix
    rotation_matrix   \* its result, <<>> before the call

vars == <<argv, images, cameras, csv, csvFrom, pc, exc, exitCode, console,
          redirected, out, handles, calibFrom, poseFrom, lines, loc, reader,
          q, rotation_matrix>>

runVars == <<argv, images, cameras, csv, csvFrom, pc, exc, exitCode, console,
             redirected, out, handles, calibFrom, poseFrom, lines, loc,
             reader>>

\* a local name that no assignment has bound yet
Unbound == "<unbound>"

LocalNames == <<"camera", "width", "height", "fx", "fy", "x0", "y0">>

InitialLocals_defaulted ==
    [camera |-> "", width |-> "0", height |-> "0",
     fx |-> "0", fy |-> "0", x0 |-> "0", y0 |-> "0"]

InitialLocals ==
    [camera |-> Unbound, width |-> Unbound, height |-> Unbound,
     fx |-> Unbound, fy |-> Unbound, x0 |-> Unbound, y0 |-> Unbound]

Init ==
    /\ argv \in ArgVectors
    /\ images \in SeqUpTo(PoseRows, MaxRows)
    /\ cameras \in SeqUpTo(CalibLines, MaxLines)
    /\ csv = <<>>
    /\ csvFrom = "none"
    /\ pc = "entry"
    /\ exc = "none"
    /\ exitCode = -1
    /\ console = <<>>
    /\ redirected = FALSE
    /\ out = <<>>
    /\ handles = {}
    /\ calibFrom = "none"
    /\ poseFrom = "none"
    /\ lines = <<>>
    /\ loc = InitialLocals
    /\ reader = <<>>
    /\ q = <<>>
    /\ rotation_matrix = <<>>

\* ---------------------------------------------------------- printed items
\* print(<str>): the string as the pieces it is concatenated from
StrItem(parts) == [kind |-> "str", parts |-> parts]
\* print(<ndarray>): the array, with its element type and shape
ArrayItem(dtype, a) ==
    [kind |-> "ndarray", dtype |-> dtype, shape |-> a.shape, data |-> a.data]

HeaderItem(camera, width, height) ==
    StrItem(<<camera, " => RESOLUTION: (", width, ",", height, ")\n">>)

\* np.array([[fx, 0, x0], [0, fy, y0], [0, 0, 1]]) with str fx, fy, x0, y0:
\* numpy takes the common type, so the integers become the strings "0", "1"
IntrinsicArray(fx, fy, x0, y0) ==
    [shape |-> <<3, 3>>,
     data |-> << <<fx, "0", x0>>, <<"0", fy, y0>>, <<"0", "0", "1">> >>]

\* extrinsic = -r_t * T
Extrinsic(r, T) ==
    [shape |-> <<3, 3>>, data |-> BroadcastMul(NegArray(transpose(r)), T)]

\* an uncaught exception ends the process with status 1
Raise(e) ==
    /\ pc' = "error"
    /\ exc' = e
    /\ exitCode' = 1

\* ------------------------------------------------------- parse_data.main()
\* called by the entry point before main(); writes parsed_data.csv from the
\* pose source named by the first argument
parse_data_main ==
    /\ pc = "entry"
    /\ IF Len(argv) >= 1
       THEN /\ csv' = <<CsvHeader>> \o images
            /\ csvFrom' = argv[1]
            /\ pc' = "main"
            /\ UNCHANGED <<exc, exitCode>>
       ELSE /\ Raise("IndexError")
            /\ UNCHANGED <<csv, csvFrom>>
    /\ UNCHANGED <<argv, images, cameras, console, redirected, out, handles,
                   calibFrom, poseFrom, lines, loc, reader, q,
                   rotation_matrix>>

\* ------------------------------------------------------------------ main()
\* len(sys.argv) != 3: usage message, sys.exit(1)
main_usage ==
    /\ pc = "main"
    /\ Len(argv) + 1 # 3
    /\ console' = console \o <<"bad arguments: ", "Usage">>
    /\ exitCode' = 1
    /\ pc' = "exit"
    /\ UNCHANGED <<argv, images, cameras, csv, csvFrom, exc, redirected, out,
                   handles, calibFrom, poseFrom, lines, loc, reader, q,
                   rotation_matrix>>

\* sys.stdout = open("out_matrix.txt", "w")
main_redirect ==
    /\ pc = "main"
    /\ Len(argv) + 1 = 3
    /\ out' = <<>>
    /\ redirected' = TRUE
    /\ handles' = handles \cup {"out_matrix.txt"}
    /\ pc' = "get_intrinsic"
    /\ UNCHANGED <<argv, images, cameras, csv, csvFrom, exc, exitCode,
                   console, calibFrom, poseFrom, lines, loc, reader, q,
                   rotation_matrix>>

\* sys.stdout.close()
main_close ==
    /\ pc = "close"
    /\ handles' = handles \ {"out_matrix.txt"}
    /\ pc' = "done"
    /\ exitCode' = 0
    /\ UNCHANGED <<argv, images, cameras, csv, csvFrom, exc, console,
                   redirected, out, calibFrom, poseFrom, lines, loc, reader,
                   q, rotation_matrix>>

\* ----------------------------------------------------------- get_intrinsic
\* main calls get_intrinsic() without argument: fp is the default
IntrinsicDefaultFp == "cameras.txt"

\* infile = open(fp, "r"); lines = infile.readlines()
get_intrinsic_open ==
    /\ pc = "get_intrinsic"
    /\ calibFrom' = IntrinsicDefaultFp
    /\ handles' = handles \cup {"calib"}
    /\ lines' = cameras
    /\ loc' = InitialLocals
    /\ pc' = "intrinsic_loop"
    /\ UNCHANGED <<argv, images, cameras, csv, csvFrom, exc, exitCode,
                   console, redirected, out, poseFrom, reader, q,
                   rotation_matrix>>

\* camera = data[1] ... y0 = data[7], one after the other; the first index
\* past the end of data raises IndexError and leaves the earlier ones assigned
AssignFields_swallowed(l, data) ==
    LET n == IF Len(data) - 1 < 7 THEN Len(data) - 1 ELSE 7
    IN  [loc |-> [k \in DOMAIN l |->
                    LET i == CHOOSE j \in 1..7 : LocalNames[j] = k
                    IN  IF i <= n THEN data[i + 1] ELSE l[k]],
         raised |-> FALSE]

AssignFields(l, data) ==
    LET n == IF Len(data) - 1 < 7 THEN Len(data) - 1 ELSE 7
    IN  [loc |-> [k \in DOMAIN l |->
                    LET i == CHOOSE j \in 1..7 : LocalNames[j] = k
                    IN  IF i <= n THEN data[i + 1] ELSE l[k]],
         raised |-> n < 7]

\* body of "for line in lines"
ProcessLine(l, data) ==
    IF StartsWithHash(data[1])
    THEN [loc |-> l, raised |-> FALSE]
    ELSE AssignFields(l, data)

get_intrinsic_line ==
    /\ pc = "intrinsic_loop"
    /\ lines # <<>>
    /\ LET r == ProcessLine(loc, Head(lines))
       IN  /\ loc' = r.loc
           /\ IF r.raised
              THEN /\ Raise("IndexError")
                   /\ UNCHANGED lines
              ELSE /\ lines' = Tail(lines)
                   /\ UNCHANGED <<pc, exc, exitCode>>
    /\ UNCHANGED <<argv, images, cameras, csv, csvFrom, console, redirected,
                   out, handles, calibFrom, poseFrom, reader, q,
                   rotation_matrix>>

\* a name read after the loop that no iteration assigned
ReadsUnbound(l) == \E k \in DOMAIN l : l[k] = Unbound

\* after the loop: build the array, print header, "INTRINSIC:" and the array
get_intrinsic_emit ==
    /\ pc = "intrinsic_loop"
    /\ lines = <<>>
    /\ IF ReadsUnbound(loc)
       THEN /\ Raise("UnboundLocalError")
            /\ UNCHANGED out
       ELSE /\ out' = out \o
                 <<HeaderItem(loc.camera, loc.width, loc.height),
                   StrItem(<<"INTRINSIC:">>),
                   ArrayItem("str",
                             IntrinsicArray(loc.fx, loc.fy, loc.x0, loc.y0))>>
            /\ pc' = "get_extrinsic"
            /\ UNCHANGED <<exc, exitCode>>
    /\ UNCHANGED <<argv, images, cameras, csv, csvFrom, console, redirected,
                   handles, calibFrom, poseFrom, lines, loc, reader, q,
                   rotation_matrix>>

\* ----------------------------------------------------------- get_extrinsic
ExtrinsicDefaultFp == "parsed_data.csv"

\* row = next(csv_reader): the rows left after the first line
AfterFirstLine_skiptwo(rows) ==
    IF Len(rows) > 1 THEN Tail(Tail(rows)) ELSE Tail(rows)

AfterFirstLine(rows) == Tail(rows)

\* with open(fp) as csv_file: ...; next(csv_reader); print("EXTRINSIC:")
get_extrinsic_open ==
    /\ pc = "get_extrinsic"
    /\ poseFrom' = ExtrinsicDefaultFp
    /\ IF csv = <<>>
       THEN /\ Raise("StopIteration")
            /\ UNCHANGED <<reader, out, handles>>
       ELSE /\ reader' = AfterFirstLine(csv)
            /\ out' = out \o <<StrItem(<<"EXTRINSIC:">>)>>
            /\ handles' = handles \cup {"pose"}
            /\ pc' = "extrinsic_loop"
            /\ UNCHANGED <<exc, exitCode>>
    /\ UNCHANGED <<argv, images, cameras, csv, csvFrom, console, redirected,
                   calibFrom, lines, loc, q, rotation_matrix>>

\* the exception raised while reading row[0], float(row[1]) .. float(row[7])
\* in that order, or "none"
RowException(row) ==
    LET bad == {i \in 1..8 : \/ Len(row) < i
                             \/ i > 1 /\ FloatRaises(row[i])}
    IN  IF bad = {} THEN "none"
        ELSE LET i == CHOOSE j \in bad : \A k \in bad : j <= k
             IN  IF Len(row) < i THEN "IndexError" ELSE "ValueError"

\* the block computed from a well-formed row
RowExtrinsic(row) ==
    LET qw == FloatLiteral[row[2]]
        qx == FloatLiteral[row[3]]
        qy == FloatLiteral[row[4]]
        qz == FloatLiteral[row[5]]
        T == <<FloatLiteral[row[6]], FloatLiteral[row[7]],
               FloatLiteral[row[8]]>>
        r == quaternion_rotation_matrix(qw, qx, qy, qz)
    IN  Extrinsic(r, T)

\* print(image_name); print(extrinsic, end=""); print("\n")
EmitBlock(row) ==
    <<StrItem(<<row[1]>>), ArrayItem("float", RowExtrinsic(row))>>

\* body of "for row in csv_reader"; an exception leaves the with block,
\* which closes csv_file
get_extrinsic_row ==
    /\ pc = "extrinsic_loop"
    /\ reader # <<>>
    /\ LET row == Head(reader)
           e == RowException(row)
       IN  IF e # "none"
           THEN /\ Raise(e)
                /\ handles' = handles \ {"pose"}
                /\ UNCHANGED <<out, reader>>
           ELSE /\ out' = out \o EmitBlock(row)
                /\ reader' = Tail(reader)
                /\ UNCHANGED <<pc, exc, exitCode, handles>>
    /\ UNCHANGED <<argv, images, cameras, csv, csvFrom, console, redirected,
                   calibFrom, poseFrom, lines, loc, q, rotation_matrix>>

\* the loop is exhausted: the with block closes csv_file, control returns
get_extrinsic_end ==
    /\ pc = "extrinsic_loop"
    /\ reader = <<>>
    /\ handles' = handles \ {"pose"}
    /\ pc' = "close"
    /\ UNCHANGED <<argv, images, cameras, csv, csvFrom, exc, exitCode,
                   console, redirected, out, calibFrom, poseFrom, lines, loc,
                   reader, q, rotation_matrix>>

Next ==
    \/ parse_data_main
    \/ main_usage
    \/ main_redirect
    \/ get_intrinsic_open
    \/ get_intrinsic_line
    \/ get_intrinsic_emit
    \/ get_extrinsic_open
    \/ get_extrinsic_row
    \/ get_extrinsic_end
    \/ main_close

Spec == Init /\ [][Next]_vars

\* the run has ended
Terminal == pc \in {"done", "error", "exit"}

\* ------------------------------------- quaternion_rotation_matrix on its own
QComponents == {Rat(k, QDen) : k \in -QDen..QDen}
Quaternions == [1..4 -> QComponents]

InitQuat ==
    /\ q \in Quaternions
    /\ rotation_matrix = <<>>
    /\ argv = <<>>
    /\ images = <<>>
    /\ cameras = <<>>
    /\ csv = <<>>
    /\ csvFrom = "none"
    /\ pc = "entry"
    /\ exc = "none"
    /\ exitCode = -1
    /\ console = <<>>
    /\ redirected = FALSE
    /\ out = <<>>
    /\ handles = {}
    /\ calibFrom = "none"
    /\ poseFrom = "none"
    /\ lines = <<>>
    /\ loc = InitialLocals
    /\ reader = <<>>

\* r = quaternion_rotation_matrix(qw, qx, qy, qz)
Convert ==
    /\ rotation_matrix = <<>>
    /\ rotation_matrix' = quaternion_rotation_matrix(q[1], q[2], q[3], q[4])
    /\ UNCHANGED <<q, runVars>>

NextQuat == Convert

SpecQuat == InitQuat /\ [][NextQuat]_vars

\* ------------------------------------------------------ matrix vocabulary
Identity3 ==
    << <<RInt(1), RInt(0), RInt(0)>>,
       <<RInt(0), RInt(1), RInt(0)>>,
       <<RInt(0), RInt(0), RInt(1)>> >>

Sum3(a, b, c) == RAdd(RAdd(a, b), c)

MatMul(a, b) ==
    [i \in 1..3 |-> [j \in 1..3 |->
        Sum3(RMul(a[i][1], b[1][j]), RMul(a[i][2], b[2][j]),
             RMul(a[i][3], b[3][j]))]]

Det(m) ==
    Sum3(RMul(m[1][1], RSub(RMul(m[2][2], m[3][3]), RMul(m[2][3], m[3][2]))),
         RNeg(RMul(m[1][2],
                   RSub(RMul(m[2][1], m[3][3]), RMul(m[2][3], m[3][1])))),
         RMul(m[1][3], RSub(RMul(m[2][1], m[3][2]), RMul(m[2][2], m[3][1]))))

IsUnitQuaternion(u) ==
    RAdd(RAdd(RAdd(RSq(u[1]), RSq(u[2])), RSq(u[3])), RSq(u[4])) = RInt(1)

\* C = -R^T . T as a matrix-vector product: C[i] = -sum_j R[j][i] * T[j]
CameraCenter(r, T) ==
    [i \in 1..3 |->
        RNeg(Sum3(RMul(r[1][i], T[1]), RMul(r[2][i], T[2]),
                  RMul(r[3][i], T[3])))]

RowRotation(row) ==
    quaternion_rotation_matrix(FloatLiteral[row[2]], FloatLiteral[row[3]],
                               FloatLiteral[row[4]], FloatLiteral[row[5]])

RowTranslation(row) ==
    <<FloatLiteral[row[6]], FloatLiteral[row[7]], FloatLiteral[row[8]]>>

\* the extrinsic block printed for the k-th pose record, once it is printed
BlockPrinted(k) == Len(out) >= 4 + 2 * k
BlockOf(k) == out[4 + 2 * k]

\* indices of the calibration lines that are not comments
NonComment == {i \in 1..Len(cameras) : ~StartsWithHash(cameras[i][1])}
LastNonComment == CHOOSE i \in NonComment : \A j \in NonComment : j <= i

\* get_intrinsic has printed its header and matrix
IntrinsicPrinted == Len(out) >= 3

\* =================================================================== claims

\* C1: every extrinsic block that get_extrinsic prints is the 3-component
\* vector C = -R^T . T of its record (a matrix-vector product), never a 3x3
\* array; for R = identity and T = (1,2,3) it is (-1,-2,-3).
C1_ExtrinsicIsMatVec ==
    \A k \in 1..Len(images) :
        BlockPrinted(k) =>
            /\ BlockOf(k).shape = <<3>>
            /\ BlockOf(k).data =
                   CameraCenter(RowRotation(images[k]),
                                RowTranslation(images[k]))

\* C2: when cameras.txt holds no non-comment line, nothing is ever printed
\* into the report (no header, no intrinsic matrix), the run never reaches
\* get_extrinsic, and once main has started its work the run can only end
\* in an uncaught error.
C2_MissingCalibrationFatal ==
    NonComment = {} =>
        /\ out = <<>>
        /\ pc \notin {"get_extrinsic", "extrinsic_loop", "close", "done"}
        /\ (Terminal /\ redirected) => (pc = "error" /\ exitCode = 1
                                        /\ exc = "UnboundLocalError")

C2_Witness ==
    /\ NonComment = {}
    /\ Len(cameras) >= 1
    /\ calibFrom = "cameras.txt"
    /\ pc = "error"
    /\ exc = "UnboundLocalError"
    /\ out = <<>>

\* C3: a run that ends in a parse error of a numeric pose field has written
\* nothing into the report: no header, no intrinsic matrix, no extrinsic
\* block of an earlier record.
C3_NoPartialReport ==
    (pc = "error" /\ exc = "ValueError") => out = <<>>

\* C4: an intrinsic matrix is printed only if fx, fy, x0 and y0 of the line
\* used are all numeric strings; a non-numeric field never reaches the
\* printed matrix.
C4_NonNumericRejected ==
    IntrinsicPrinted =>
        /\ ~FloatRaises(out[3].data[1][1])
        /\ ~FloatRaises(out[3].data[2][2])
        /\ ~FloatRaises(out[3].data[1][3])
        /\ ~FloatRaises(out[3].data[2][3])

\* C5: the printed header and intrinsic matrix are built from the fields of
\* the last non-comment line of cameras.txt and of no other line; if any
\* non-comment line has too few fields, nothing is printed at all.
C5_LastLineOnly ==
    /\ IntrinsicPrinted =>
          /\ NonComment # {}
          /\ LET L == cameras[LastNonComment]
             IN  /\ Len(L) >= 8
                 /\ out[1] = HeaderItem(L[2], L[3], L[4])
                 /\ out[3].kind = "ndarray"
                 /\ out[3].data = << <<L[5], "0", L[7]>>,
                                     <<"0", L[6], L[8]>>,
                                     <<"0", "0", "1">> >>
    /\ (\E i \in NonComment : Len(cameras[i]) < 8) => out = <<>>

C5_Witness ==
    /\ IntrinsicPrinted
    /\ Cardinality(NonComment) >= 2
    /\ \E i \in NonComment : i # LastNonComment
                             /\ cameras[i] # cameras[LastNonComment]

C7_UnitQuaternionOrthonormal ==
    (rotation_matrix # <<>> /\ IsUnitQuaternion(q)) =>
        /\ MatMul(rotation_matrix, transpose(rotation_matrix)) = Identity3
        /\ Det(rotation_matrix) = RInt(1)
        /\ (q = <<RInt(1), RInt(0), RInt(0), RInt(0)>>) =>
               rotation_matrix = Identity3

C7_Witness ==
    /\ rotation_matrix # <<>>
    /\ IsUnitQuaternion(q)
    /\ Cardinality({i \in 1..4 : q[i] # RInt(0)}) >= 3

\* C8: the calibration file get_intrinsic opens is the one named by the
\* second argument, and the rows get_extrinsic reads derive from the file
\* named by the first argument.
C8_ArgumentsIdentifyInputs ==
    /\ calibFrom # "none" => calibFrom = argv[2]
    /\ poseFrom # "none" => csvFrom = argv[1]

C10_HandlesReleased ==
    Terminal => handles = {}
====
